---- MODULE Spec2Model ----
(***************************************************************************)
(* TalentScout hiring assistant (src/app.py): the conversation state       *)
(* machine handle_conversation with its validators, the tech-stack         *)
(* extractor, the question generator and the ending detector.              *)
(*                                                                         *)
(* A Python str is a sequence of one-character strings.  The one character *)
(* outside ASCII that the program tests for, the cross mark that prefixes  *)
(* every error string of ask_llama, is the single element CROSS.           *)
(***************************************************************************)
EXTENDS Integers, Sequences, FiniteSets, TLC

\* ------------------------------------------------------------------------
\* Characters and the str methods the program uses
\* ------------------------------------------------------------------------
CROSS == "CROSS"

UpperSeq == <<"A","B","C","D","E","F","G","H","I","J","K","L","M","N","O","P","Q","R","S","T","U","V","W","X","Y","Z">>
LowerSeq == <<"a","b","c","d","e","f","g","h","i","j","k","l","m","n","o","p","q","r","s","t","u","v","w","x","y","z">>
UpperSet == {UpperSeq[i] : i \in 1..26}
LowerSet == {LowerSeq[i] : i \in 1..26}
Digits == {"0","1","2","3","4","5","6","7","8","9"}
Whitespace == {" ", "\t", "\n", "\r", "\f"}

LowerOf == [c \in UpperSet |-> LowerSeq[CHOOSE i \in 1..26 : UpperSeq[i] = c]]
UpperOf == [c \in LowerSet |-> UpperSeq[CHOOSE i \in 1..26 : LowerSeq[i] = c]]

IsLetter(c) == c \in UpperSet \/ c \in LowerSet
IsDigit(c) == c \in Digits
\* \w of the re module, on the characters above
IsWordChar(c) == IsLetter(c) \/ IsDigit(c) \/ c = "_"

ToLower(c) == IF c \in UpperSet THEN LowerOf[c] ELSE c
ToUpper(c) == IF c \in LowerSet THEN UpperOf[c] ELSE c

DigitVal(c) == CHOOSE v \in 0..9 : <<"0","1","2","3","4","5","6","7","8","9">>[v + 1] = c

\* min(a, b)
Min2(a, b) == IF a <= b THEN a ELSE b

\* str.lower()
lower(s) == [i \in 1..Len(s) |-> ToLower(s[i])]

\* str.title(): a cased character is upper-cased when the character before
\* it is not cased, lower-cased otherwise; other characters are kept.
title(s) ==
    [i \in 1..Len(s) |->
        IF IsLetter(s[i])
        THEN IF i > 1 /\ IsLetter(s[i-1]) THEN ToLower(s[i]) ELSE ToUpper(s[i])
        ELSE s[i]]

\* str.strip()
strip(s) ==
    LET keep == {i \in 1..Len(s) : s[i] \notin Whitespace}
    IN  IF keep = {} THEN <<>>
        ELSE LET first == CHOOSE i \in keep : \A j \in keep : i <= j
                 last  == CHOOSE i \in keep : \A j \in keep : j <= i
             IN  SubSeq(s, first, last)

\* s[i:].startswith(w), 1-based
MatchAt(s, w, i) ==
    /\ i >= 1
    /\ i + Len(w) - 1 <= Len(s)
    /\ SubSeq(s, i, i + Len(w) - 1) = w

\* w in s
Contains(w, s) == \E i \in 1..(Len(s) + 1) : MatchAt(s, w, i)

startswith(s, w) == MatchAt(s, w, 1)

\* str.replace(c, ""), for a one-character c
remove(s, c) == SelectSeq(s, LAMBDA x : x # c)

\* list(dict.fromkeys(xs)): the first occurrence of every element, in order
RECURSIVE fromkeys(_)
fromkeys(xs) ==
    IF xs = <<>> THEN <<>>
    ELSE LET init == fromkeys(SubSeq(xs, 1, Len(xs) - 1))
             x    == xs[Len(xs)]
         IN  IF \E i \in 1..Len(init) : init[i] = x THEN init ELSE Append(init, x)

\* ", ".join(xs)
RECURSIVE join(_)
join(xs) ==
    IF xs = <<>> THEN <<>>
    ELSE IF Len(xs) = 1 THEN xs[1]
    ELSE xs[1] \o <<",", " ">> \o join(Tail(xs))

\* \b of the re module at the gap after position k (k = 0: before the first
\* character, k = Len(s): after the last)
WordAt(s, k) == k >= 1 /\ k <= Len(s) /\ IsWordChar(s[k])
Boundary(s, k) == WordAt(s, k) # WordAt(s, k + 1)

\* re.search(r'\b(w1|w2|...)\b', s) is not None
SearchWords(s, words) ==
    \E w \in words : \E i \in 1..Len(s) :
        /\ MatchAt(s, w, i)
        /\ Boundary(s, i - 1)
        /\ Boundary(s, i + Len(w) - 1)

\* ------------------------------------------------------------------------
\* Validators
\* ------------------------------------------------------------------------
EmailLocalChars == UpperSet \cup LowerSet \cup Digits \cup {".", "_", "%", "+", "-"}
EmailDomainChars == UpperSet \cup LowerSet \cup Digits \cup {".", "-"}

\* re.match(r'^[a-zA-Z0-9._%+-]+@[a-zA-Z0-9.-]+\.[a-zA-Z]{2,}$', s): at is the
\* position of "@", dot the position of the last "." and e the position
\* where "$" matches (the end, or just before a final newline).
MatchEmailPattern(s) ==
    \E e \in {Len(s)} \cup {k \in {Len(s) - 1} : k >= 0 /\ s[Len(s)] = "\n"} :
    \E at \in 2..e : \E dot \in (at + 2)..e :
        /\ s[at] = "@"
        /\ \A i \in 1..(at - 1) : s[i] \in EmailLocalChars
        /\ \A i \in (at + 1)..(dot - 1) : s[i] \in EmailDomainChars
        /\ s[dot] = "."
        /\ e - dot >= 2
        /\ \A i \in (dot + 1)..e : IsLetter(s[i])

validate_email(email) ==
    IF email = <<>> \/ Len(email) < 5 \/ Len(email) > 254
    THEN FALSE
    ELSE MatchEmailPattern(email)

\* re.match(r'^(\+[1-9]\d{1,14}|[1-9]\d{9})$', re.sub(r'[\s\-\(\)]', '', phone))
validate_phone(phone) ==
    IF phone = <<>> THEN FALSE
    ELSE LET clean_phone == SelectSeq(phone, LAMBDA c : c \notin Whitespace \cup {"-", "(", ")"})
             n == Len(clean_phone)
         IN  \/ /\ n >= 3
                /\ n <= 16
                /\ clean_phone[1] = "+"
                /\ clean_phone[2] \in Digits \ {"0"}
                /\ \A i \in 3..n : IsDigit(clean_phone[i])
             \/ /\ n = 10
                /\ clean_phone[1] \in Digits \ {"0"}
                /\ \A i \in 2..n : IsDigit(clean_phone[i])

\* int() of a run of digits.  Python integers are unbounded; values from
\* IntCap on are all represented by IntCap, which keeps every comparison
\* with a number below IntCap.
IntCap == 1000

RECURSIVE int(_)
int(ds) ==
    IF ds = <<>> THEN 0
    ELSE LET v == 10 * int(SubSeq(ds, 1, Len(ds) - 1)) + DigitVal(ds[Len(ds)])
         IN  IF v >= IntCap THEN IntCap ELSE v

\* re.findall(r'\d+', s)[0]: the first maximal run of digits of s (s has one)
FirstDigitRun(s) ==
    LET first == CHOOSE i \in 1..Len(s) :
                    IsDigit(s[i]) /\ \A j \in 1..(i - 1) : ~IsDigit(s[j])
        last  == CHOOSE j \in first..Len(s) :
                    /\ \A k \in first..j : IsDigit(s[k])
                    /\ (j = Len(s) \/ ~IsDigit(s[j + 1]))
    IN  SubSeq(s, first, last)

\* validate_experience with the upper limit excluded
validate_experience_Below50(experience) ==
    IF experience = <<>> THEN FALSE
    ELSE IF \E i \in 1..Len(experience) : IsDigit(experience[i])
         THEN LET years == int(FirstDigitRun(experience))
              IN  0 <= years /\ years < 50
         ELSE FALSE

validate_experience(experience) ==
    IF experience = <<>> THEN FALSE
    ELSE IF \E i \in 1..Len(experience) : IsDigit(experience[i])
         THEN LET years == int(FirstDigitRun(experience))
              IN  0 <= years /\ years <= 50
         ELSE FALSE

\* ------------------------------------------------------------------------
\* Tech-stack extractor
\* ------------------------------------------------------------------------
\* tech_categories.items(), flattened in iteration order
tech_categories == <<
    \* languages
    <<"p","y","t","h","o","n">>,
    <<"j","a","v","a">>,
    <<"j","a","v","a","s","c","r","i","p","t">>,
    <<"t","y","p","e","s","c","r","i","p","t">>,
    <<"c","+","+">>,
    <<"c","#">>,
    <<"g","o">>,
    <<"r","u","s","t">>,
    <<"p","h","p">>,
    <<"r","u","b","y">>,
    <<"s","w","i","f","t">>,
    <<"k","o","t","l","i","n">>,
    \* frameworks
    <<"r","e","a","c","t">>,
    <<"a","n","g","u","l","a","r">>,
    <<"v","u","e">>,
    <<"n","o","d","e","j","s">>,
    <<"e","x","p","r","e","s","s">>,
    <<"d","j","a","n","g","o">>,
    <<"f","l","a","s","k">>,
    <<"s","p","r","i","n","g">>,
    <<"l","a","r","a","v","e","l">>,
    <<"r","a","i","l","s">>,
    <<"f","a","s","t","a","p","i">>,
    \* databases
    <<"m","y","s","q","l">>,
    <<"p","o","s","t","g","r","e","s","q","l">>,
    <<"m","o","n","g","o","d","b">>,
    <<"r","e","d","i","s">>,
    <<"s","q","l","i","t","e">>,
    <<"o","r","a","c","l","e">>,
    <<"c","a","s","s","a","n","d","r","a">>,
    <<"e","l","a","s","t","i","c","s","e","a","r","c","h">>,
    \* cloud
    <<"a","w","s">>,
    <<"a","z","u","r","e">>,
    <<"g","c","p">>,
    <<"g","o","o","g","l","e"," ","c","l","o","u","d">>,
    <<"d","o","c","k","e","r">>,
    <<"k","u","b","e","r","n","e","t","e","s">>,
    <<"j","e","n","k","i","n","s">>,
    <<"g","i","t">>,
    <<"l","i","n","u","x">>,
    \* web
    <<"h","t","m","l">>,
    <<"c","s","s">>,
    <<"b","o","o","t","s","t","r","a","p">>,
    <<"t","a","i","l","w","i","n","d">>,
    <<"s","a","s","s">>,
    <<"j","q","u","e","r","y">>,
    <<"w","e","b","p","a","c","k">>,
    \* ml
    <<"t","e","n","s","o","r","f","l","o","w">>,
    <<"p","y","t","o","r","c","h">>,
    <<"s","c","i","k","i","t","-","l","e","a","r","n">>,
    <<"p","a","n","d","a","s">>,
    <<"n","u","m","p","y">>,
    <<"k","e","r","a","s">>,
    <<"o","p","e","n","c","v">>
>>

\* The extractor matching whole words only
extract_tech_stack_WholeWords(text) ==
    LET text_lower == lower(text)
        hits == SelectSeq(tech_categories, LAMBDA tech : SearchWords(text_lower, {tech}))
        found_tech == [i \in 1..Len(hits) |-> title(hits[i])]
    IN  fromkeys(found_tech)

\* extract_tech_stack that looks for the tokens in the text as typed
extract_tech_stack_CaseSensitive(text) ==
    LET hits == SelectSeq(tech_categories, LAMBDA tech : Contains(tech, text))
        found_tech == [i \in 1..Len(hits) |-> title(hits[i])]
    IN  fromkeys(found_tech)

extract_tech_stack(text) ==
    LET text_lower == lower(text)
        hits == SelectSeq(tech_categories, LAMBDA tech : Contains(tech, text_lower))
        found_tech == [i \in 1..Len(hits) |-> title(hits[i])]
    IN  fromkeys(found_tech)

\* ------------------------------------------------------------------------
\* Ending detection
\* ------------------------------------------------------------------------
EndingWords1 == {<<"b","y","e">>, <<"g","o","o","d","b","y","e">>, <<"e","x","i","t">>, <<"q","u","i","t">>, <<"s","t","o","p">>, <<"e","n","d">>, <<"f","i","n","i","s","h">>}
EndingThanks == {<<"t","h","a","n","k"," ","y","o","u">>, <<"t","h","a","n","k","s">>}
EndingThanksTail == {<<"b","y","e">>, <<"g","o","o","d","b","y","e">>, <<"d","o","n","e">>}
EndingWords3 == {<<"d","o","n","e">>, <<"f","i","n","i","s","h","e","d">>, <<"c","o","m","p","l","e","t","e">>}
EndingWords4 == {<<"n","o"," ","m","o","r","e">>, <<"n","o","t","h","i","n","g"," ","e","l","s","e">>, <<"t","h","a","t","'","s"," ","a","l","l">>}

\* re.search(r'\b(thank you|thanks).*(bye|goodbye|done)\b', s): "." does not
\* match a newline
SearchThanksBye(s) ==
    \E w \in EndingThanks : \E i \in 1..Len(s) :
        /\ MatchAt(s, w, i)
        /\ Boundary(s, i - 1)
        /\ \E t \in EndingThanksTail : \E j \in (i + Len(w))..Len(s) :
              /\ MatchAt(s, t, j)
              /\ Boundary(s, j + Len(t) - 1)
              /\ \A k \in (i + Len(w))..(j - 1) : s[k] # "\n"

\* detect_conversation_ending without the pattern done|finished|complete
detect_conversation_ending_NoDone(user_input) ==
    LET s == lower(user_input)
    IN  \/ SearchWords(s, EndingWords1)
        \/ SearchThanksBye(s)
        \/ SearchWords(s, EndingWords4)

detect_conversation_ending(user_input) ==
    LET s == lower(user_input)
    IN  \/ SearchWords(s, EndingWords1)
        \/ SearchThanksBye(s)
        \/ SearchWords(s, EndingWords3)
        \/ SearchWords(s, EndingWords4)

\* ------------------------------------------------------------------------
\* Language-model gateway
\* ------------------------------------------------------------------------
\* str() of a natural number
RECURSIVE str(_)
str(n) ==
    LET d == <<"0","1","2","3","4","5","6","7","8","9">>[(n % 10) + 1]
    IN  IF n < 10 THEN <<d>> ELSE Append(str(n \div 10), d)

\* What requests.post can do: answer with a status code (and, for 200, the
\* content of the first choice), or raise.
HttpReply(status, content) == [kind |-> "http", status |-> status, content |-> content, detail |-> <<>>]
Raised(kind, detail) == [kind |-> kind, status |-> 0, content |-> <<>>, detail |-> detail]

\* ask_llama without the test of the credential
ask_llama_NoKeyCheck(api_key, net) ==
    IF net.kind = "http"
    THEN IF net.status = 200 THEN net.content
         ELSE IF net.status = 401
              THEN <<CROSS," ","A","u","t","h","e","n","t","i","c","a","t","i","o","n"," ","f","a","i","l","e","d","."," ","P","l","e","a","s","e"," ","c","h","e","c","k"," ","y","o","u","r"," ","A","P","I"," ","k","e","y",".">>
         ELSE IF net.status = 429
              THEN <<CROSS," ","R","a","t","e"," ","l","i","m","i","t"," ","e","x","c","e","e","d","e","d","."," ","P","l","e","a","s","e"," ","w","a","i","t"," ","a","n","d"," ","t","r","y"," ","a","g","a","i","n",".">>
         ELSE <<CROSS," ","A","P","I"," ","E","r","r","o","r",":"," ">> \o str(net.status)
    ELSE IF net.kind = "Timeout"
         THEN <<CROSS," ","R","e","q","u","e","s","t"," ","t","i","m","e","d"," ","o","u","t","."," ","P","l","e","a","s","e"," ","t","r","y"," ","a","g","a","i","n",".">>
    ELSE IF net.kind = "ConnectionError"
         THEN <<CROSS," ","C","o","n","n","e","c","t","i","o","n"," ","e","r","r","o","r","."," ","P","l","e","a","s","e"," ","c","h","e","c","k"," ","y","o","u","r"," ","i","n","t","e","r","n","e","t"," ","c","o","n","n","e","c","t","i","o","n",".">>
    ELSE <<CROSS," ","U","n","e","x","p","e","c","t","e","d"," ","e","r","r","o","r",":"," ">> \o net.detail

\* ask_llama(prompt, ...): api_key is the truth value of TOGETHER_API_KEY,
\* net the outcome of requests.post (not consulted without a key)
ask_llama(api_key, net) ==
    IF ~api_key
    THEN <<CROSS," ","A","P","I"," ","k","e","y"," ","n","o","t"," ","c","o","n","f","i","g","u","r","e","d","."," ","P","l","e","a","s","e"," ","s","e","t"," ","T","O","G","E","T","H","E","R","_","A","P","I","_","K","E","Y"," ","i","n"," ","y","o","u","r"," ",".","e","n","v"," ","f","i","l","e",".">>
    ELSE IF net.kind = "http"
         THEN IF net.status = 200 THEN net.content
              ELSE IF net.status = 401
                   THEN <<CROSS," ","A","u","t","h","e","n","t","i","c","a","t","i","o","n"," ","f","a","i","l","e","d","."," ","P","l","e","a","s","e"," ","c","h","e","c","k"," ","y","o","u","r"," ","A","P","I"," ","k","e","y",".">>
              ELSE IF net.status = 429
                   THEN <<CROSS," ","R","a","t","e"," ","l","i","m","i","t"," ","e","x","c","e","e","d","e","d","."," ","P","l","e","a","s","e"," ","w","a","i","t"," ","a","n","d"," ","t","r","y"," ","a","g","a","i","n",".">>
              ELSE <<CROSS," ","A","P","I"," ","E","r","r","o","r",":"," ">> \o str(net.status)
         ELSE IF net.kind = "Timeout"
              THEN <<CROSS," ","R","e","q","u","e","s","t"," ","t","i","m","e","d"," ","o","u","t","."," ","P","l","e","a","s","e"," ","t","r","y"," ","a","g","a","i","n",".">>
         ELSE IF net.kind = "ConnectionError"
              THEN <<CROSS," ","C","o","n","n","e","c","t","i","o","n"," ","e","r","r","o","r","."," ","P","l","e","a","s","e"," ","c","h","e","c","k"," ","y","o","u","r"," ","i","n","t","e","r","n","e","t"," ","c","o","n","n","e","c","t","i","o","n",".">>
         ELSE <<CROSS," ","U","n","e","x","p","e","c","t","e","d"," ","e","r","r","o","r",":"," ">> \o net.detail

\* ------------------------------------------------------------------------
\* Question generator
\* ------------------------------------------------------------------------
\* f"**{tech}**: {clean_question}"
FormatQuestion(tech, question) ==
    LET clean_question == remove(remove(strip(question), "\""), "'")
    IN  <<"*", "*">> \o tech \o <<"*", "*", ":", " ">> \o clean_question

\* The selection without the cut to num_questions
selected_techs_NoCap(tech_stack, num_questions) == tech_stack

\* tech_stack[:num_questions] if len(tech_stack) >= num_questions else tech_stack
selected_techs(tech_stack, num_questions) ==
    IF Len(tech_stack) >= num_questions
    THEN SubSeq(tech_stack, 1, num_questions)
    ELSE tech_stack

\* The loop of generate_technical_questions over selected_techs; replies[i]
\* is what ask_llama returned for the i-th technology.
RECURSIVE CollectQuestions(_, _)
CollectQuestions(techs, replies) ==
    IF techs = <<>> THEN <<>>
    ELSE LET n == Len(techs)
             questions == CollectQuestions(SubSeq(techs, 1, n - 1), SubSeq(replies, 1, n - 1))
             question == replies[n]
         IN  IF question # <<>> /\ ~startswith(question, <<CROSS>>)
             THEN Append(questions, FormatQuestion(techs[n], question))
             ELSE questions

generate_technical_questions(tech_stack, num_questions, replies) ==
    CollectQuestions(selected_techs(tech_stack, num_questions), replies)

\* ------------------------------------------------------------------------
\* Bounds and the inputs of the model
\* ------------------------------------------------------------------------
\* datetime.now() takes values in 1..MaxTime
MaxTime == 2

\* What the user may type at any time in a free session
Inputs == {
    <<" ","J","a","v","a","@","C","o",".","i","o"," ">>,
    <<"+","1","4","1","5","5","5","5","0","1","0","0">>,
    <<"4">>,
    <<"P","y","t","h","o","n",","," ","D","j","a","n","g","o",","," ","P","o","s","t","g","r","e","S","Q","L">>,
    <<"o","k"," ","t","h","a","n","k","s",","," ","b","y","e","!">>
}

\* Scripted sessions: the end-to-end scenario, each of whose seven inputs
\* may be replaced by an alternative, followed by ScriptTail
JaneScript == <<
    <<"J","a","n","e"," ","D","o","e">>,
    <<"j","a","n","e","@","c","o",".","i","o">>,
    <<"+","1","4","1","5","5","5","5","0","1","0","0">>,
    <<"4"," ","y","e","a","r","s">>,
    <<"B","a","c","k","e","n","d"," ","E","n","g","i","n","e","e","r">>,
    <<"A","u","s","t","i","n">>,
    <<"P","y","t","h","o","n",","," ","D","j","a","n","g","o",","," ","P","o","s","t","g","r","e","S","Q","L">>
>>
Alternatives == <<
    <<<<"x">>>>,
    <<<<"b","a","d","@">>, <<"x">>>>,
    <<<<"+","1"," ","(","4","1","5",")"," ","5","5","5","-","0","1","0","0">>, <<"0","1","2","3","4","5","6","7","8","9">>>>,
    <<<<"7","5"," ","y","e","a","r","s">>>>,
    <<<<"Q","A">>>>,
    <<<<"A">>>>,
    <<<<"R","e","a","c","t",","," ","A","W","S">>>>
>>
ScriptTail == <<
    <<"c","o","n","t","i","n","u","e">>,
    <<"c","o","n","t","i","n","u","e">>,
    <<"c","o","n","t","i","n","u","e">>,
    <<"c","o","n","t","i","n","u","e">>,
    <<"w","h","a","t"," ","n","e","x","t","?">>,
    <<"o","k"," ","t","h","a","n","k","s",","," ","b","y","e","!">>,
    <<"h","e","l","l","o">>
>>
\* The scenario, then answers that hold the words "done" and "end"
DoneScript == JaneScript \o <<
    <<"c","o","n","t","i","n","u","e">>,
    <<"I"," ","a","m"," ","d","o","n","e"," ","w","i","t","h"," ","i","t">>,
    <<"t","h","e"," ","e","n","d"," ","o","f"," ","t","h","e"," ","l","o","o","p">>,
    <<"h","e","l","l","o">>
>>
Scripts ==
    {[i \in 1..7 |-> IF pick[i] = 0 THEN JaneScript[i] ELSE Alternatives[i][pick[i]]] \o ScriptTail :
        pick \in {f \in [1..7 -> 0..2] : \A i \in 1..7 : f[i] <= Len(Alternatives[i])}}
    \cup {SubSeq(ScriptTail, 6, 7), DoneScript}

ScriptInputs == UNION {{s[i] : i \in 1..Len(s)} : s \in Scripts}
Typable == Inputs \cup ScriptInputs

\* detect_conversation_ending and extract_tech_stack of every input that can
\* be typed, evaluated once
IsEnding == [u \in Typable |-> detect_conversation_ending(u)]
TechStackOf == [u \in Typable |-> extract_tech_stack(u)]

\* What requests.post does in one call
NetworkOutcomes == {
    HttpReply(200, <<" ","\"","W","h","y","?","\""," ">>),
    HttpReply(200, <<>>),
    HttpReply(429, <<>>),
    Raised("Timeout", <<>>)
}

\* ------------------------------------------------------------------------
\* Session state (st.session_state) and what the last turn did
\* ------------------------------------------------------------------------
VARIABLES
    conversation_stage,      \* st.session_state.conversation_stage
    candidate_info,          \* st.session_state.candidate_info
    technical_questions,     \* st.session_state.technical_questions
    technical_answers,       \* st.session_state.technical_answers
    current_question_index,  \* st.session_state.current_question_index
    conversation_ended,      \* st.session_state.conversation_ended
    TOGETHER_API_KEY,        \* whether the credential was found at start-up
    now,                     \* the last value datetime.now() returned
    response,                \* what the last call of handle_conversation returned
    gateway_replies,         \* what ask_llama returned, call by call, in that call
    network_requests,        \* how many times requests.post was called in that call
    script,                  \* scripted sessions: the inputs to be typed
    pos,                     \* scripted sessions: the next input of script
    messages,                \* st.session_state.messages, the transcript
    session_keys,            \* the keys present in st.session_state
    page,                    \* main(): "run" when a page run is due, "shown" when
                             \* the page waits for input; "none" when
                             \* handle_conversation is called without main()
    argument,                \* a text given to a validator or to the extractor
    result                   \* what the function returned for it

session == <<conversation_stage, candidate_info, technical_questions,
             technical_answers, current_question_index, conversation_ended>>
vars == <<conversation_stage, candidate_info, technical_questions,
          technical_answers, current_question_index, conversation_ended,
          TOGETHER_API_KEY, now, response, gateway_replies, network_requests,
          script, pos, messages, session_keys, page, argument, result>>

FieldOrder == <<"name", "email", "phone", "experience", "position", "location", "tech_stack">>

\* A return value: the message template and the values formatted into it
Msg(kind, args) == [kind |-> kind, args |-> args]

\* result before a function has been called
NotCalled == [function |-> "none", value |-> <<>>]

\* the keys of defaults in initialize_session_state
DefaultKeys == {"messages", "conversation_stage", "candidate_info", "technical_questions",
                "technical_answers", "current_question_index", "conversation_ended",
                "session_id", "start_time"}

\* defaults of initialize_session_state
EmptyCandidate ==
    [name |-> <<>>, email |-> <<>>, phone |-> <<>>, experience |-> <<>>,
     position |-> <<>>, location |-> <<>>, tech_stack |-> <<>>]

initialize_session_state ==
    /\ conversation_stage = "greeting"
    /\ candidate_info = EmptyCandidate
    /\ technical_questions = <<>>
    /\ technical_answers = <<>>
    /\ current_question_index = 0
    /\ conversation_ended = FALSE

\* ------------------------------------------------------------------------
\* handle_information_gathering: the record, the stage and the return value
\* it leaves, given the record and the stage it finds
\* ------------------------------------------------------------------------
Outcome(info, stage, msg) == [info |-> info, stage |-> stage, response |-> msg]

CollectName(info, stage, user_input) ==
    IF Len(strip(user_input)) >= 2
    THEN LET name == title(strip(user_input))
         IN  Outcome([info EXCEPT !.name = name], stage, Msg("ask_email", <<name>>))
    ELSE Outcome(info, stage, Msg("retry_name", <<>>))

CollectEmail(info, stage, user_input) ==
    IF validate_email(strip(user_input))
    THEN Outcome([info EXCEPT !.email = lower(strip(user_input))], stage, Msg("ask_phone", <<>>))
    ELSE Outcome(info, stage, Msg("retry_email", <<>>))

CollectPhone(info, stage, user_input) ==
    IF validate_phone(strip(user_input))
    THEN Outcome([info EXCEPT !.phone = strip(user_input)], stage, Msg("ask_experience", <<>>))
    ELSE Outcome(info, stage, Msg("retry_phone", <<>>))

CollectExperience(info, stage, user_input) ==
    IF validate_experience(strip(user_input))
    THEN Outcome([info EXCEPT !.experience = strip(user_input)], stage, Msg("ask_position", <<>>))
    ELSE Outcome(info, stage, Msg("retry_experience", <<>>))

CollectPosition(info, stage, user_input) ==
    IF Len(strip(user_input)) >= 3
    THEN Outcome([info EXCEPT !.position = title(strip(user_input))], stage, Msg("ask_location", <<>>))
    ELSE Outcome(info, stage, Msg("retry_position", <<>>))

CollectLocation(info, stage, user_input) ==
    IF Len(strip(user_input)) >= 2
    THEN Outcome([info EXCEPT !.location = title(strip(user_input))], stage, Msg("ask_tech_stack", <<>>))
    ELSE Outcome(info, stage, Msg("retry_location", <<>>))

\* if len(tech_stack) >= 2
EnoughTechnologies_AtLeastOne(tech_stack) == Len(tech_stack) >= 1

EnoughTechnologies(tech_stack) == Len(tech_stack) >= 2

\* The tech stack branch that goes straight to technical_questions
CollectTechStack_SkipsGeneration(info, stage, user_input) ==
    LET tech_stack == TechStackOf[user_input]
    IN  IF EnoughTechnologies(tech_stack)
        THEN LET done == [info EXCEPT !.tech_stack = tech_stack]
             IN  Outcome(done, "technical_questions",
                         Msg("summary", <<done.name, done.email, done.position,
                                          done.experience, join(done.tech_stack)>>))
        ELSE Outcome(info, stage, Msg("retry_tech_stack", <<>>))

\* The tech stack branch without the assignment of generating_questions
CollectTechStack_KeepsStage(info, stage, user_input) ==
    LET tech_stack == TechStackOf[user_input]
    IN  IF EnoughTechnologies(tech_stack)
        THEN LET done == [info EXCEPT !.tech_stack = tech_stack]
             IN  Outcome(done, stage,
                         Msg("summary", <<done.name, done.email, done.position,
                                          done.experience, join(done.tech_stack)>>))
        ELSE Outcome(info, stage, Msg("retry_tech_stack", <<>>))

CollectTechStack(info, stage, user_input) ==
    LET tech_stack == TechStackOf[user_input]
    IN  IF EnoughTechnologies(tech_stack)
        THEN LET done == [info EXCEPT !.tech_stack = tech_stack]
             IN  Outcome(done, "generating_questions",
                         Msg("summary", <<done.name, done.email, done.position,
                                          done.experience, join(done.tech_stack)>>))
        ELSE Outcome(info, stage, Msg("retry_tech_stack", <<>>))

\* The if/elif chain with the email branch tested before the name branch
handle_information_gathering_EmailFirst(info, stage, user_input) ==
    IF info.email = <<>> /\ validate_email(strip(user_input)) THEN CollectEmail(info, stage, user_input)
    ELSE IF info.name = <<>> THEN CollectName(info, stage, user_input)
    ELSE IF info.email = <<>> THEN CollectEmail(info, stage, user_input)
    ELSE IF info.phone = <<>> THEN CollectPhone(info, stage, user_input)
    ELSE IF info.experience = <<>> THEN CollectExperience(info, stage, user_input)
    ELSE IF info.position = <<>> THEN CollectPosition(info, stage, user_input)
    ELSE IF info.location = <<>> THEN CollectLocation(info, stage, user_input)
    ELSE IF info.tech_stack = <<>> THEN CollectTechStack(info, stage, user_input)
    ELSE Outcome(info, stage, Msg("None", <<>>))

\* The chain with the e-mail check made part of the branch condition, so
\* that an input that fails it goes on to the branches below
handle_information_gathering_FallThrough(info, stage, user_input) ==
    IF info.name = <<>> THEN CollectName(info, stage, user_input)
    ELSE IF info.email = <<>> /\ validate_email(strip(user_input)) THEN CollectEmail(info, stage, user_input)
    ELSE IF info.phone = <<>> THEN CollectPhone(info, stage, user_input)
    ELSE IF info.experience = <<>> THEN CollectExperience(info, stage, user_input)
    ELSE IF info.position = <<>> THEN CollectPosition(info, stage, user_input)
    ELSE IF info.location = <<>> THEN CollectLocation(info, stage, user_input)
    ELSE IF info.tech_stack = <<>> THEN CollectTechStack(info, stage, user_input)
    ELSE Outcome(info, stage, Msg("None", <<>>))

\* The chain with the name branch tested on the email field
handle_information_gathering_NameOnEmail(info, stage, user_input) ==
    IF info.email = <<>> THEN CollectName(info, stage, user_input)
    ELSE IF info.phone = <<>> THEN CollectPhone(info, stage, user_input)
    ELSE IF info.experience = <<>> THEN CollectExperience(info, stage, user_input)
    ELSE IF info.position = <<>> THEN CollectPosition(info, stage, user_input)
    ELSE IF info.location = <<>> THEN CollectLocation(info, stage, user_input)
    ELSE IF info.tech_stack = <<>> THEN CollectTechStack(info, stage, user_input)
    ELSE Outcome(info, stage, Msg("None", <<>>))

handle_information_gathering(info, stage, user_input) ==
    IF info.name = <<>> THEN CollectName(info, stage, user_input)
    ELSE IF info.email = <<>> THEN CollectEmail(info, stage, user_input)
    ELSE IF info.phone = <<>> THEN CollectPhone(info, stage, user_input)
    ELSE IF info.experience = <<>> THEN CollectExperience(info, stage, user_input)
    ELSE IF info.position = <<>> THEN CollectPosition(info, stage, user_input)
    ELSE IF info.location = <<>> THEN CollectLocation(info, stage, user_input)
    ELSE IF info.tech_stack = <<>> THEN CollectTechStack(info, stage, user_input)
    ELSE \* every field is set: the function falls off its end
         Outcome(info, stage, Msg("None", <<>>))

\* ------------------------------------------------------------------------
\* handle_technical_questions
\* ------------------------------------------------------------------------
\* technical_questions[current_question_index - 1]: in Python, index -1 is the
\* last element
CurrentQuestion_Previous(questions, index) == questions[IF index = 0 THEN Len(questions) ELSE index]

\* technical_questions[current_question_index], 0-based
CurrentQuestion(questions, index) == questions[index + 1]

\* "more questions remain", tested one question too early
MoreQuestionsRemain_EndsEarly(questions, index) == index + 1 < Len(questions)

\* current_question_index < len(technical_questions), after the increment
MoreQuestionsRemain(questions, index) == index < Len(questions)

\* ------------------------------------------------------------------------
\* main(): the chat input and the transcript
\* ------------------------------------------------------------------------
\* if not st.session_state.conversation_ended: user_input = st.chat_input(...);
\* if user_input: ... st.rerun().  The input box exists on a shown page of a
\* conversation that has not ended, and a page run follows the turn.
ChatInput ==
    IF page = "none"
    THEN UNCHANGED page
    ELSE /\ page = "shown"
         /\ ~conversation_ended
         /\ page' = "run"

Message(role, content) == [role |-> role, content |-> content]

\* The transcript without the append of the user message
Transcript_AssistantOnly(user_input) ==
    IF page = "none"
    THEN UNCHANGED messages
    ELSE messages' = Append(messages, Message("assistant", response'))

\* messages.append(user message); response = handle_conversation(user_input);
\* messages.append(assistant message)
Transcript(user_input) ==
    IF page = "none"
    THEN UNCHANGED messages
    ELSE messages' = messages \o <<Message("user", user_input),
                                   Message("assistant", response')>>

\* ------------------------------------------------------------------------
\* handle_conversation(user_input), one action per branch
\* ------------------------------------------------------------------------
\* The user types user_input: any of Inputs in a free session, the next
\* input of the script in a scripted one
Typed(user_input) ==
    /\ IF script = <<>>
       THEN /\ user_input \in Inputs
            /\ UNCHANGED <<script, pos>>
       ELSE /\ pos <= Len(script)
            /\ user_input = script[pos]
            /\ pos' = pos + 1
            /\ UNCHANGED script
    /\ ChatInput
    /\ UNCHANGED <<session_keys, argument, result>>

\* Stage dispatch that does not look for an ending phrase first
Dispatch_NoEndingCheck(user_input, stage) ==
    /\ Typed(user_input)
    /\ ~conversation_ended
    /\ conversation_stage = stage

\* The turn reaches stage dispatch, in the given stage
Dispatch(user_input, stage) ==
    /\ Typed(user_input)
    /\ ~conversation_ended
    /\ ~IsEnding[user_input]
    /\ conversation_stage = stage

\* The ended-check made after ending detection
AlreadyEnded_AfterDetection(user_input) ==
    /\ Typed(user_input)
    /\ conversation_ended
    /\ response' = IF IsEnding[user_input]
                   THEN Msg("goodbye", <<>>)
                   ELSE Msg("conversation_has_ended", <<>>)
    /\ gateway_replies' = <<>>
    /\ network_requests' = 0
    /\ UNCHANGED <<session, TOGETHER_API_KEY, now>>
    /\ Transcript(user_input)

\* if st.session_state.conversation_ended: return "This conversation has ended..."
AlreadyEnded(user_input) ==
    /\ Typed(user_input)
    /\ conversation_ended
    /\ response' = Msg("conversation_has_ended", <<>>)
    /\ gateway_replies' = <<>>
    /\ network_requests' = 0
    /\ UNCHANGED <<session, TOGETHER_API_KEY, now>>
    /\ Transcript(user_input)

\* if detect_conversation_ending(user_input): ...
EndingDetected(user_input) ==
    /\ Typed(user_input)
    /\ ~conversation_ended
    /\ IsEnding[user_input]
    /\ conversation_ended' = TRUE
    /\ response' = Msg("goodbye", <<>>)
    /\ gateway_replies' = <<>>
    /\ network_requests' = 0
    /\ UNCHANGED <<conversation_stage, candidate_info, technical_questions,
                   technical_answers, current_question_index, TOGETHER_API_KEY, now>>
    /\ Transcript(user_input)

\* stage "greeting" with an input that only starts the conversation: the
\* stage is set to info_gathering and the name is asked for
Greeting_DropsInput(user_input) ==
    /\ Dispatch(user_input, "greeting")
    /\ conversation_stage' = "info_gathering"
    /\ response' = Msg("retry_name", <<>>)
    /\ gateway_replies' = <<>>
    /\ network_requests' = 0
    /\ UNCHANGED <<candidate_info, technical_questions, technical_answers,
                   current_question_index, conversation_ended, TOGETHER_API_KEY, now>>
    /\ Transcript(user_input)

\* stage "greeting": the stage is set to info_gathering, then the input goes
\* to handle_information_gathering
Greeting(user_input) ==
    /\ Dispatch(user_input, "greeting")
    /\ LET out == handle_information_gathering(candidate_info, "info_gathering", user_input)
       IN  /\ candidate_info' = out.info
           /\ conversation_stage' = out.stage
           /\ response' = out.response
    /\ gateway_replies' = <<>>
    /\ network_requests' = 0
    /\ UNCHANGED <<technical_questions, technical_answers, current_question_index,
                   conversation_ended, TOGETHER_API_KEY, now>>
    /\ Transcript(user_input)

\* stage "info_gathering"
InfoGathering(user_input) ==
    /\ Dispatch(user_input, "info_gathering")
    /\ LET out == handle_information_gathering(candidate_info, conversation_stage, user_input)
       IN  /\ candidate_info' = out.info
           /\ conversation_stage' = out.stage
           /\ response' = out.response
    /\ gateway_replies' = <<>>
    /\ network_requests' = 0
    /\ UNCHANGED <<technical_questions, technical_answers, current_question_index,
                   conversation_ended, TOGETHER_API_KEY, now>>
    /\ Transcript(user_input)

\* num_questions without the cap of 3
NumQuestions_Uncapped(tech_stack) == Len(tech_stack)

\* num_questions=min(3, len(tech_stack))
NumQuestions(tech_stack) == Min2(3, Len(tech_stack))

\* ask_llama: requests.post is called once, unless the credential is absent
\* (the function returns before it)
RequestsMade(api_key) == IF api_key THEN 1 ELSE 0

\* if questions and not any(q.startswith(CROSS) for q in questions)
GenerationSucceeded(questions) ==
    /\ questions # <<>>
    /\ ~\E i \in 1..Len(questions) : startswith(questions[i], <<CROSS>>)

\* stage "generating_questions": one ask_llama call per selected technology,
\* nets[i] being what the network does in the i-th call
GeneratingQuestions(user_input) ==
    /\ Dispatch(user_input, "generating_questions")
    /\ LET tech_stack == candidate_info.tech_stack
           num_questions == NumQuestions(tech_stack)
           calls == Len(selected_techs(tech_stack, num_questions))
       IN  \E nets \in [1..calls -> NetworkOutcomes] :
             LET replies == [i \in 1..calls |-> ask_llama(TOGETHER_API_KEY, nets[i])]
                 questions == generate_technical_questions(tech_stack, num_questions, replies)
             IN  /\ gateway_replies' = replies
                 /\ network_requests' = calls * RequestsMade(TOGETHER_API_KEY)
                 /\ IF GenerationSucceeded(questions)
                    THEN /\ technical_questions' = questions
                         /\ current_question_index' = 0
                         /\ conversation_stage' = "technical_questions"
                         /\ response' = Msg("first_question", <<1, Len(questions), questions[1]>>)
                    ELSE /\ response' = Msg("generation_failed", <<>>)
                         /\ UNCHANGED <<technical_questions, current_question_index,
                                        conversation_stage>>
    /\ UNCHANGED <<candidate_info, technical_answers, conversation_ended,
                   TOGETHER_API_KEY, now>>
    /\ Transcript(user_input)

\* stage "technical_questions": handle_technical_questions(user_input);
\* timestamp is what datetime.now() returns
TechnicalQuestions(user_input) ==
    /\ Dispatch(user_input, "technical_questions")
    /\ IF current_question_index < Len(technical_questions)
       THEN \E timestamp \in now..MaxTime :
              LET index == current_question_index + 1
              IN  /\ now' = timestamp
                  /\ technical_answers' = Append(technical_answers,
                        [question |-> CurrentQuestion(technical_questions, current_question_index),
                         answer |-> strip(user_input),
                         timestamp |-> timestamp])
                  /\ current_question_index' = index
                  /\ IF MoreQuestionsRemain(technical_questions, index)
                     THEN /\ response' = Msg("next_question",
                                 <<index + 1, Len(technical_questions),
                                   technical_questions[index + 1]>>)
                          /\ UNCHANGED conversation_stage
                     ELSE /\ conversation_stage' = "conclusion"
                          /\ response' = Msg("questions_complete", <<>>)
       ELSE \* no question left: the function falls off its end
            /\ response' = Msg("None", <<>>)
            /\ UNCHANGED <<technical_answers, current_question_index, conversation_stage, now>>
    /\ gateway_replies' = <<>>
    /\ network_requests' = 0
    /\ UNCHANGED <<candidate_info, technical_questions, conversation_ended, TOGETHER_API_KEY>>
    /\ Transcript(user_input)

\* stage "conclusion" with a way back: the screening starts over
Conclusion_StartsOver(user_input) ==
    /\ Dispatch(user_input, "conclusion")
    /\ response' = Msg("deferral", <<>>)
    /\ conversation_stage' = "greeting"
    /\ gateway_replies' = <<>>
    /\ network_requests' = 0
    /\ UNCHANGED <<candidate_info, technical_questions, technical_answers,
                   current_question_index, conversation_ended, TOGETHER_API_KEY, now>>
    /\ Transcript(user_input)

\* stage "conclusion"
Conclusion(user_input) ==
    /\ Dispatch(user_input, "conclusion")
    /\ response' = Msg("deferral", <<>>)
    /\ gateway_replies' = <<>>
    /\ network_requests' = 0
    /\ UNCHANGED <<session, TOGETHER_API_KEY, now>>
    /\ Transcript(user_input)

\* ------------------------------------------------------------------------
\* Specifications
\* ------------------------------------------------------------------------
InitSession ==
    /\ initialize_session_state
    /\ TOGETHER_API_KEY \in BOOLEAN
    /\ now = 1
    /\ response = Msg("greeting", <<>>)
    /\ gateway_replies = <<>>
    /\ network_requests = 0
    /\ pos = 1
    /\ messages = <<>>
    /\ session_keys = DefaultKeys
    /\ page = "none"
    /\ argument = <<>>
    /\ result = NotCalled

\* A free session: the user may type any of Inputs at any time
Init ==
    /\ InitSession
    /\ script = <<>>

\* A scripted session: the user types the inputs of one of Scripts, in order
InitScripted ==
    /\ InitSession
    /\ script \in Scripts

Next ==
    \E user_input \in Typable :
        \/ AlreadyEnded(user_input)
        \/ EndingDetected(user_input)
        \/ Greeting(user_input)
        \/ InfoGathering(user_input)
        \/ GeneratingQuestions(user_input)
        \/ TechnicalQuestions(user_input)
        \/ Conclusion(user_input)

Spec == Init /\ [][Next]_vars
SpecScripted == InitScripted /\ [][Next]_vars

\* ------------------------------------------------------------------------
\* The extractor and the experience validator, called on their own
\* ------------------------------------------------------------------------
MaxWords == 4
MaxLen == 4

Words == {<<"P","y","t","h","o","n">>, <<"p","y","t","h","o","n">>, <<"a","n","d">>, <<"a","g","a","i","n">>, <<"D","j","a","n","g","o">>, <<"J","a","v","a","S","c","r","i","p","t">>}
ExperienceChars == {"0", "1", "5", "-", ".", " ", "y"}

RECURSIVE JoinWords(_)
JoinWords(ws) ==
    IF ws = <<>> THEN <<>>
    ELSE IF Len(ws) = 1 THEN ws[1]
    ELSE ws[1] \o <<" ">> \o JoinWords(Tail(ws))

\* Texts of up to MaxWords words, and strings of up to MaxLen characters
Texts ==
    {JoinWords(ws) : ws \in UNION {[1..n -> Words] : n \in 0..MaxWords}}
    \cup UNION {[1..n -> ExperienceChars] : n \in 0..MaxLen}

Returned(function, value) == [function |-> function, value |-> value]

CallExtractTechStack ==
    /\ result' = Returned("extract_tech_stack", extract_tech_stack(argument))
    /\ UNCHANGED <<session, TOGETHER_API_KEY, now, response, gateway_replies,
                   network_requests, script, pos, messages, session_keys, page, argument>>

CallValidateExperience ==
    /\ result' = Returned("validate_experience", validate_experience(argument))
    /\ UNCHANGED <<session, TOGETHER_API_KEY, now, response, gateway_replies,
                   network_requests, script, pos, messages, session_keys, page, argument>>

InitFunctions ==
    /\ initialize_session_state
    /\ TOGETHER_API_KEY = FALSE
    /\ now = 1
    /\ response = Msg("greeting", <<>>)
    /\ gateway_replies = <<>>
    /\ network_requests = 0
    /\ script = <<>>
    /\ pos = 1
    /\ messages = <<>>
    /\ session_keys = DefaultKeys
    /\ page = "none"
    /\ argument \in Texts
    /\ result = NotCalled

NextFunctions ==
    \/ CallExtractTechStack
    \/ CallValidateExperience

SpecFunctions == InitFunctions /\ [][NextFunctions]_vars

\* ------------------------------------------------------------------------
\* Faults during stage dispatch.  A statement of a stage handler raises an
\* Exception (a reply of the service whose content is not a string makes
\* question.startswith raise in generate_technical_questions; any statement
\* can raise MemoryError); "except Exception" of handle_conversation catches
\* it and returns the error message.  written is the number of assignments
\* to st.session_state the handler had made when the exception was raised;
\* nothing undoes them.
\* ------------------------------------------------------------------------
\* except Exception as e: return the error message
Caught(user_input) ==
    /\ response' = Msg("error", <<>>)
    /\ Transcript(user_input)

\* stage "greeting": the assignment of info_gathering, then the write of
\* handle_information_gathering
GreetingFault(user_input) ==
    /\ Dispatch(user_input, "greeting")
    /\ LET out == handle_information_gathering(candidate_info, "info_gathering", user_input)
       IN  \E written \in 0..2 :
             /\ conversation_stage' = IF written >= 1 THEN "info_gathering" ELSE conversation_stage
             /\ candidate_info' = IF written >= 2 THEN out.info ELSE candidate_info
    /\ gateway_replies' = <<>>
    /\ network_requests' = 0
    /\ UNCHANGED <<technical_questions, technical_answers, current_question_index,
                   conversation_ended, TOGETHER_API_KEY, now>>
    /\ Caught(user_input)

\* stage "info_gathering": the write of the field, then (tech stack branch)
\* the assignment of generating_questions
InfoGatheringFault(user_input) ==
    /\ Dispatch(user_input, "info_gathering")
    /\ LET out == handle_information_gathering(candidate_info, conversation_stage, user_input)
       IN  \E written \in 0..2 :
             /\ candidate_info' = IF written >= 1 THEN out.info ELSE candidate_info
             /\ conversation_stage' = IF written >= 2 THEN out.stage ELSE conversation_stage
    /\ gateway_replies' = <<>>
    /\ network_requests' = 0
    /\ UNCHANGED <<technical_questions, technical_answers, current_question_index,
                   conversation_ended, TOGETHER_API_KEY, now>>
    /\ Caught(user_input)

\* stage "generating_questions": the exception is raised after made calls of
\* ask_llama, or, when generation succeeded, after one of the assignments
\* to technical_questions, current_question_index and conversation_stage
GeneratingQuestionsFault(user_input) ==
    /\ Dispatch(user_input, "generating_questions")
    /\ LET tech_stack == candidate_info.tech_stack
           num_questions == NumQuestions(tech_stack)
           calls == Len(selected_techs(tech_stack, num_questions))
       IN  \E made \in 0..calls :
           \E nets \in [1..made -> NetworkOutcomes] :
           \E written \in IF made = calls THEN 0..3 ELSE {0} :
             LET replies == [i \in 1..made |-> ask_llama(TOGETHER_API_KEY, nets[i])]
                 questions == IF made = calls
                              THEN generate_technical_questions(tech_stack, num_questions, replies)
                              ELSE <<>>
             IN  /\ written >= 1 => GenerationSucceeded(questions)
                 /\ gateway_replies' = replies
                 /\ network_requests' = made * RequestsMade(TOGETHER_API_KEY)
                 /\ technical_questions' = IF written >= 1 THEN questions ELSE technical_questions
                 /\ current_question_index' = IF written >= 2 THEN 0 ELSE current_question_index
                 /\ conversation_stage' = IF written >= 3 THEN "technical_questions"
                                          ELSE conversation_stage
    /\ UNCHANGED <<candidate_info, technical_answers, conversation_ended,
                   TOGETHER_API_KEY, now>>
    /\ Caught(user_input)

\* stage "technical_questions": the append of the answer, the increment of
\* the cursor, then (after the last question) the assignment of conclusion
TechnicalQuestionsFault(user_input) ==
    /\ Dispatch(user_input, "technical_questions")
    /\ current_question_index < Len(technical_questions)
    /\ \E timestamp \in now..MaxTime, written \in 0..3 :
          LET index == current_question_index + 1
          IN  /\ written >= 3 => ~MoreQuestionsRemain(technical_questions, index)
              /\ now' = IF written >= 1 THEN timestamp ELSE now
              /\ technical_answers' =
                    IF written >= 1
                    THEN Append(technical_answers,
                           [question |-> CurrentQuestion(technical_questions, current_question_index),
                            answer |-> strip(user_input),
                            timestamp |-> timestamp])
                    ELSE technical_answers
              /\ current_question_index' = IF written >= 2 THEN index ELSE current_question_index
              /\ conversation_stage' = IF written >= 3 THEN "conclusion" ELSE conversation_stage
    /\ gateway_replies' = <<>>
    /\ network_requests' = 0
    /\ UNCHANGED <<candidate_info, technical_questions, conversation_ended, TOGETHER_API_KEY>>
    /\ Caught(user_input)

NextFaults ==
    \/ Next
    \/ \E user_input \in Typable :
        \/ GreetingFault(user_input)
        \/ InfoGatheringFault(user_input)
        \/ GeneratingQuestionsFault(user_input)
        \/ TechnicalQuestionsFault(user_input)

\* Scripted sessions in which turns may fault
SpecFaults == InitScripted /\ [][NextFaults]_vars

\* ------------------------------------------------------------------------
\* main(): page runs
\* ------------------------------------------------------------------------
\* The value of a key that is not in st.session_state
Absent == "absent"

\* st.session_state[key] = value, whether the key is present or not
InitializeKey_Always(key, value, default) == default

\* if key not in st.session_state: st.session_state[key] = value
InitializeKey(key, value, default) == IF key \in session_keys THEN value ELSE default

\* A run of main() without an input: initialize_session_state(), then the
\* greeting is appended if the transcript is empty, and the page is shown
PageRun ==
    /\ page = "run"
    /\ conversation_stage' = InitializeKey("conversation_stage", conversation_stage, "greeting")
    /\ candidate_info' = InitializeKey("candidate_info", candidate_info, EmptyCandidate)
    /\ technical_questions' = InitializeKey("technical_questions", technical_questions, <<>>)
    /\ technical_answers' = InitializeKey("technical_answers", technical_answers, <<>>)
    /\ current_question_index' = InitializeKey("current_question_index", current_question_index, 0)
    /\ conversation_ended' = InitializeKey("conversation_ended", conversation_ended, FALSE)
    /\ session_keys' = session_keys \cup DefaultKeys
    /\ LET initialized == InitializeKey("messages", messages, <<>>)
       IN  messages' = IF initialized = <<>>
                       THEN <<Message("assistant", Msg("greeting", <<>>))>>
                       ELSE initialized
    /\ page' = "shown"
    /\ UNCHANGED <<TOGETHER_API_KEY, now, response, gateway_replies, network_requests,
                   script, pos, argument, result>>

\* A new browser session: st.session_state is empty and the first page run
\* is due; the user then types the inputs of one of Scripts
InitMain ==
    /\ session_keys = {}
    /\ conversation_stage = Absent
    /\ candidate_info = Absent
    /\ technical_questions = Absent
    /\ technical_answers = Absent
    /\ current_question_index = Absent
    /\ conversation_ended = Absent
    /\ messages = Absent
    /\ page = "run"
    /\ TOGETHER_API_KEY \in BOOLEAN
    /\ now = 1
    /\ response = Msg("None", <<>>)
    /\ gateway_replies = <<>>
    /\ network_requests = 0
    /\ script \in Scripts
    /\ pos = 1
    /\ argument = <<>>
    /\ result = NotCalled

\* handle_conversation is called only while the input box exists, so never
\* with conversation_ended set
NextMain ==
    \/ PageRun
    \/ \E user_input \in Typable :
        \/ EndingDetected(user_input)
        \/ Greeting(user_input)
        \/ InfoGathering(user_input)
        \/ GeneratingQuestions(user_input)
        \/ TechnicalQuestions(user_input)
        \/ Conclusion(user_input)

SpecMain == InitMain /\ [][NextMain]_vars

\* ------------------------------------------------------------------------
\* Properties
\* ------------------------------------------------------------------------
IsSet(field) == candidate_info[field] # <<>>
Marked(reply) == startswith(reply, <<CROSS>>)
Label(tech) == <<"*", "*">> \o tech \o <<"*", "*", ":", " ">>
AfterInfoGathering == {"generating_questions", "technical_questions", "conclusion"}

\* C1: in every reachable state the non-empty candidate fields are a prefix
\* of name, email, phone, experience, position, location, tech_stack: no
\* field is set while an earlier one is empty.
C1_FieldsFillInOrder ==
    \A i \in 1..7 : \A j \in 1..7 :
        (i < j /\ IsSet(FieldOrder[j])) => IsSet(FieldOrder[i])

\* name, email and phone are set, the four fields after them are not
C1_Witness ==
    /\ IsSet("name") /\ IsSet("email") /\ IsSet("phone")
    /\ ~IsSet("experience") /\ ~IsSet("position") /\ ~IsSet("location") /\ ~IsSet("tech_stack")
    /\ response.kind = "ask_experience"

\* C2: when a Gateway call of a generating_questions turn returned an
\* error-marked string, the batch is failed as a whole: the stage is still
\* generating_questions, no question is stored and the retry message is
\* returned.
C2_AnyFailureFailsBatch ==
    (\E i \in 1..Len(gateway_replies) : Marked(gateway_replies[i]))
        => /\ conversation_stage = "generating_questions"
           /\ technical_questions = <<>>
           /\ response = Msg("generation_failed", <<>>)

\* The seven inputs of the end-to-end scenario have been typed
JaneSession == script = JaneScript \o ScriptTail /\ pos = 8

JaneOutcome(tech_stack) ==
    /\ \A i \in 1..7 : IsSet(FieldOrder[i])
    /\ conversation_stage = "generating_questions"
    /\ conversation_ended = FALSE
    /\ candidate_info.tech_stack = tech_stack

\* C3 as stated: the scenario ends with every field set, stage
\* generating_questions, ended false and tech_stack Python, Django, Postgresql.
C3_Original ==
    JaneSession => JaneOutcome(<<<<"P","y","t","h","o","n">>, <<"D","j","a","n","g","o">>, <<"P","o","s","t","g","r","e","s","q","l">>>>)

\* C3, amended: the scenario ends with every field set, stage
\* generating_questions, ended false and tech_stack Python, Go, Django,
\* Postgresql ("go" is a substring of "django").
C3_JaneScenario ==
    JaneSession => JaneOutcome(<<<<"P","y","t","h","o","n">>, <<"G","o">>, <<"D","j","a","n","g","o">>, <<"P","o","s","t","g","r","e","s","q","l">>>>)

C3_Witness == JaneSession /\ response.kind = "summary"

\* The turn that types the next input of the script, when the conversation
\* has not ended
ScriptedTurn == pos <= Len(script) /\ pos' = pos + 1 /\ ~conversation_ended

\* C4: in whatever stage, with ended false, a turn whose input matches an
\* ending pattern sets ended, returns the closing message and leaves what
\* the stage handlers write (stage, record, questions, answers, cursor) alone.
C4_EndingTakesPrecedence ==
    [][(ScriptedTurn /\ IsEnding[script[pos]])
        => /\ conversation_ended' = TRUE
           /\ response' = Msg("goodbye", <<>>)
           /\ UNCHANGED <<conversation_stage, candidate_info, technical_questions,
                          technical_answers, current_question_index>>]_vars

\* the conversation was ended by an ending phrase typed as an answer
C4_Witness ==
    /\ conversation_ended
    /\ response = Msg("goodbye", <<>>)
    /\ conversation_stage = "technical_questions"
    /\ technical_answers # <<>>

\* C5: once ended is true it stays true, and every call returns the fixed
\* "conversation has ended" message and leaves stage, record, questions,
\* answers and cursor unchanged.
C5_EndedIsFinal ==
    [][conversation_ended
        => /\ conversation_ended' = TRUE
           /\ response' = Msg("conversation_has_ended", <<>>)
           /\ UNCHANGED <<conversation_stage, candidate_info, technical_questions,
                          technical_answers, current_question_index>>]_vars

C5_Witness ==
    /\ conversation_ended
    /\ response = Msg("conversation_has_ended", <<>>)
    /\ technical_answers # <<>>

\* C6: a successful generation stores N >= 1 questions with no answer
\* recorded; from then on every turn that does not end the conversation
\* records exactly one answer, and the stage is technical_questions as long
\* as fewer than N answers are recorded and conclusion from the N-th on.
C6_OneAnswerPerTurn ==
    [][/\ (conversation_stage = "generating_questions" /\ conversation_stage' # "generating_questions")
            => /\ conversation_stage' = "technical_questions"
               /\ Len(technical_questions') >= 1
               /\ technical_answers' = <<>>
       /\ (conversation_stage = "technical_questions" /\ ~conversation_ended /\ ~conversation_ended')
            => /\ Len(technical_answers') = Len(technical_answers) + 1
               /\ technical_questions' = technical_questions
               /\ conversation_stage' = IF Len(technical_answers') < Len(technical_questions)
                                        THEN "technical_questions"
                                        ELSE "conclusion"]_vars

\* three questions were stored and the third answer has just been recorded
C6_Witness ==
    /\ Len(technical_questions) = 3
    /\ Len(technical_answers) = 3
    /\ conversation_stage = "conclusion"
    /\ response = Msg("questions_complete", <<>>)

C7_Result ==
    /\ Len(technical_questions) = Min2(3, Len(candidate_info.tech_stack))
    /\ \A i \in 1..Len(technical_questions) :
          startswith(technical_questions[i], Label(candidate_info.tech_stack[i]))
    /\ current_question_index = 0
    /\ conversation_stage = "technical_questions"
    /\ response = Msg("first_question", <<1, Len(technical_questions), technical_questions[1]>>)

\* C7 as stated: when no Gateway call of a generating_questions turn returned
\* an error-marked string, min(3, len(tech_stack)) questions are stored, the
\* i-th labelled with the i-th technology, the cursor is 0, the stage is
\* technical_questions and the response presents question 1 of N.
C7_Original ==
    (gateway_replies # <<>> /\ \A i \in 1..Len(gateway_replies) : ~Marked(gateway_replies[i]))
        => C7_Result

\* C7, amended: the same, when every Gateway call returned a non-empty text
\* that is not error-marked.
C7_AllQuestionsStored ==
    (/\ gateway_replies # <<>>
     /\ \A i \in 1..Len(gateway_replies) :
           gateway_replies[i] # <<>> /\ ~Marked(gateway_replies[i]))
        => C7_Result

\* three calls, each of which returned a question
C7_Witness ==
    /\ Len(gateway_replies) = 3
    /\ \A i \in 1..3 : gateway_replies[i] # <<>> /\ ~Marked(gateway_replies[i])
    /\ Len(candidate_info.tech_stack) = 4

\* The check of the first unset field of info, applied to user_input
PassesCheck(info, user_input) ==
    IF info.name = <<>> THEN Len(strip(user_input)) >= 2
    ELSE IF info.email = <<>> THEN validate_email(strip(user_input))
    ELSE IF info.phone = <<>> THEN validate_phone(strip(user_input))
    ELSE IF info.experience = <<>> THEN validate_experience(strip(user_input))
    ELSE IF info.position = <<>> THEN Len(strip(user_input)) >= 3
    ELSE IF info.location = <<>> THEN Len(strip(user_input)) >= 2
    ELSE Len(TechStackOf[user_input]) >= 2

RetryMessage(info) ==
    IF info.name = <<>> THEN "retry_name"
    ELSE IF info.email = <<>> THEN "retry_email"
    ELSE IF info.phone = <<>> THEN "retry_phone"
    ELSE IF info.experience = <<>> THEN "retry_experience"
    ELSE IF info.position = <<>> THEN "retry_position"
    ELSE IF info.location = <<>> THEN "retry_location"
    ELSE "retry_tech_stack"

\* C8: in info_gathering, a turn whose input fails the check of the first
\* unset field leaves the record and the stage unchanged and returns the
\* prompt of that same field, which is therefore the field the next input
\* is checked against.
C8_FailedInputIsDiscarded ==
    [][(/\ ScriptedTurn
        /\ conversation_stage = "info_gathering"
        /\ ~IsEnding[script[pos]]
        /\ ~PassesCheck(candidate_info, script[pos]))
        => /\ candidate_info' = candidate_info
           /\ conversation_stage' = conversation_stage
           /\ response' = Msg(RetryMessage(candidate_info), <<>>)]_vars

\* an input has just failed the phone check
C8_Witness ==
    /\ conversation_stage = "info_gathering"
    /\ response = Msg("retry_phone", <<>>)
    /\ IsSet("email") /\ ~IsSet("phone")

\* C9: after info_gathering all six text fields are set and tech_stack has
\* at least 2 entries; in greeting and info_gathering tech_stack is empty;
\* and the stage leaves info_gathering only in the turn that sets tech_stack.
C9_TechStackEndsInfoGathering ==
    /\ [](/\ conversation_stage \in AfterInfoGathering
              => /\ \A i \in 1..6 : IsSet(FieldOrder[i])
                 /\ Len(candidate_info.tech_stack) >= 2
          /\ conversation_stage \notin AfterInfoGathering
              => candidate_info.tech_stack = <<>>)
    /\ [][(conversation_stage = "info_gathering" /\ conversation_stage' # "info_gathering")
            => /\ candidate_info.tech_stack = <<>>
               /\ candidate_info'.tech_stack # <<>>
               /\ conversation_stage' = "generating_questions"]_vars

\* the tech stack has just been accepted
C9_Witness ==
    /\ conversation_stage = "generating_questions"
    /\ response.kind = "summary"
    /\ Len(candidate_info.tech_stack) >= 2

\* C10: the number of recorded answers equals the cursor, the cursor never
\* exceeds the number of stored questions, the i-th answer's question is the
\* i-th stored question; stored questions never change and recorded answers
\* are only appended to.
C10_AnswersFollowQuestions ==
    /\ [](/\ Len(technical_answers) = current_question_index
          /\ current_question_index <= Len(technical_questions)
          /\ \A i \in 1..Len(technical_answers) :
                technical_answers[i].question = technical_questions[i])
    /\ [][/\ technical_questions # <<>> => technical_questions' = technical_questions
          /\ Len(technical_answers') >= Len(technical_answers)
          /\ SubSeq(technical_answers', 1, Len(technical_answers)) = technical_answers]_vars

\* two of three questions are answered
C10_Witness ==
    /\ Len(technical_questions) = 3
    /\ current_question_index = 2
    /\ Len(technical_answers) = 2
    /\ conversation_stage = "technical_questions"

\* C11: a candidate field that is set is never changed or cleared by a later
\* turn, and the record changes only in turns that start in greeting or
\* info_gathering: every turn that starts in generating_questions,
\* technical_questions or conclusion leaves it as it is.
C11_RecordIsWriteOnce ==
    [][/\ \A i \in 1..7 :
             IsSet(FieldOrder[i]) => candidate_info'[FieldOrder[i]] = candidate_info[FieldOrder[i]]
       /\ conversation_stage \in AfterInfoGathering => candidate_info' = candidate_info
       /\ candidate_info' # candidate_info
             => conversation_stage \in {"greeting", "info_gathering"}]_vars

\* the whole record is set and turns of all later stages have been taken
C11_Witness ==
    /\ \A i \in 1..7 : IsSet(FieldOrder[i])
    /\ conversation_stage = "conclusion"
    /\ response = Msg("deferral", <<>>)

\* C12: a turn that reaches stage dispatch in greeting moves the stage to
\* info_gathering and treats its input as the name in that same turn: an
\* input of at least 2 characters after trimming is stored, title-cased, as
\* the name and the e-mail is asked for; a shorter one gets the name prompt
\* again.
C12_GreetingInputIsTheName ==
    [][(/\ ScriptedTurn
        /\ conversation_stage = "greeting"
        /\ ~IsEnding[script[pos]])
        => /\ conversation_stage' = "info_gathering"
           /\ IF Len(strip(script[pos])) >= 2
              THEN /\ candidate_info' = [candidate_info EXCEPT !.name = title(strip(script[pos]))]
                   /\ response' = Msg("ask_email", <<title(strip(script[pos]))>>)
              ELSE /\ candidate_info' = candidate_info
                   /\ response' = Msg("retry_name", <<>>)]_vars

\* the first input of the session has been stored as the name
C12_Witness ==
    /\ script # <<>>
    /\ pos = 2
    /\ conversation_stage = "info_gathering"
    /\ candidate_info.name = title(strip(script[1]))
    /\ response.kind = "ask_email"

\* C13: handle_conversation never returns None: what the last call returned
\* is a message, the stage is info_gathering only while tech_stack is unset
\* and technical_questions only while the cursor is before the end of the
\* question list, so neither handler is called where it falls off its end.
C13_NeverBlank ==
    /\ response.kind # "None"
    /\ conversation_stage = "info_gathering" => ~IsSet("tech_stack")
    /\ conversation_stage = "technical_questions"
          => current_question_index < Len(technical_questions)

\* the cursor is at the end of the question list and a turn has been taken
\* after that
C13_Witness ==
    /\ technical_questions # <<>>
    /\ current_question_index = Len(technical_questions)
    /\ ~conversation_ended
    /\ response.kind = "deferral"
    /\ TOGETHER_API_KEY

\* C14: a turn that starts in generating_questions and does not end the
\* conversation makes one ask_llama call for each of the first
\* min(3, len(tech_stack)) technologies, whatever the earlier calls of the
\* turn returned, and no call makes more than one request; every other turn
\* makes none; and a page run, which is the only thing that happens without
\* an input, makes none either.
C14_OneCallPerTechnology ==
    [][IF page = "run"
       THEN UNCHANGED <<gateway_replies, network_requests>>
       ELSE /\ Len(gateway_replies') =
                  IF conversation_stage = "generating_questions" /\ ~conversation_ended'
                  THEN Min2(3, Len(candidate_info.tech_stack))
                  ELSE 0
            /\ network_requests' <= Len(gateway_replies')]_vars

\* the first of three calls failed, the other two were made all the same,
\* and the page has been run again since
C14_Witness ==
    /\ page = "shown"
    /\ Len(gateway_replies) = 3
    /\ Marked(gateway_replies[1])
    /\ ~Marked(gateway_replies[2]) /\ ~Marked(gateway_replies[3])
    /\ network_requests = 3

\* C15: while the credential is absent, every ask_llama call returns the
\* "not configured" message and no request is made, no question is ever
\* stored, a generating_questions turn answers with the retry message and
\* the stage never gets past generating_questions.
C15_NoCredentialNoQuestions ==
    ~TOGETHER_API_KEY
        => /\ \A i \in 1..Len(gateway_replies) :
                 gateway_replies[i] = <<CROSS," ","A","P","I"," ","k","e","y"," ","n","o","t"," ","c","o","n","f","i","g","u","r","e","d","."," ","P","l","e","a","s","e"," ","s","e","t"," ","T","O","G","E","T","H","E","R","_","A","P","I","_","K","E","Y"," ","i","n"," ","y","o","u","r"," ",".","e","n","v"," ","f","i","l","e",".">>
           /\ network_requests = 0
           /\ technical_questions = <<>>
           /\ conversation_stage \in {"greeting", "info_gathering", "generating_questions"}
           /\ gateway_replies # <<>> => response = Msg("generation_failed", <<>>)

\* without a credential, a generating_questions turn has made its three calls
C15_Witness ==
    /\ ~TOGETHER_API_KEY
    /\ conversation_stage = "generating_questions"
    /\ Len(gateway_replies) = 3
    /\ response = Msg("generation_failed", <<>>)

\* C16: in conclusion, a turn that does not end the conversation returns the
\* deferral message and leaves stage, record, questions, answers, cursor and
\* ended flag as they are; and no turn at all takes the stage out of
\* conclusion.
C16_ConclusionIsAbsorbing ==
    [][/\ (conversation_stage = "conclusion" /\ ~conversation_ended /\ ~conversation_ended')
            => /\ response' = Msg("deferral", <<>>)
               /\ UNCHANGED session
       /\ conversation_stage = "conclusion" => conversation_stage' = "conclusion"]_vars

\* a turn has been taken in conclusion, after one answer to one question
C16_Witness ==
    /\ conversation_stage = "conclusion"
    /\ response = Msg("deferral", <<>>)
    /\ Len(technical_answers) = 1
    /\ ~conversation_ended

\* C17: a turn that returns the error message (an exception was raised
\* during stage dispatch) leaves stage, record, questions, answers, cursor
\* and ended flag as they were before the turn.
C17_FaultLeavesStateUnchanged ==
    [][response'.kind = "error" => UNCHANGED session]_vars

\* position of a canonical name in the table
TableIndex(name) == CHOOSE k \in 1..Len(tech_categories) : title(tech_categories[k]) = name

\* C18: what extract_tech_stack returns has no name twice, has its names in
\* the order of the table (categories in order, tokens in order within a
\* category), and has the name of a token exactly when the token is a
\* substring of the lowercased text; "Python and python again" gives
\* ["Python"].
C18_ExtractedNames ==
    result.function = "extract_tech_stack"
        => LET names == result.value
           IN  /\ \A i \in 1..Len(names) : \A j \in 1..Len(names) :
                     i < j => /\ names[i] # names[j]
                              /\ TableIndex(names[i]) < TableIndex(names[j])
               /\ \A k \in 1..Len(tech_categories) :
                     (\E i \in 1..Len(names) : names[i] = title(tech_categories[k]))
                         <=> Contains(tech_categories[k], lower(argument))
               /\ argument = <<"P","y","t","h","o","n"," ","a","n","d"," ","p","y","t","h","o","n"," ","a","g","a","i","n">> => names = <<<<"P","y","t","h","o","n">>>>

\* the extractor has been called on "Python and python again"
C18_Witness ==
    /\ argument = <<"P","y","t","h","o","n"," ","a","n","d"," ","p","y","t","h","o","n"," ","a","g","a","i","n">>
    /\ result = Returned("extract_tech_stack", <<<<"P","y","t","h","o","n">>>>)

\* The first maximal run of digits of s, without its leading zeros, is a
\* numeral of 0..50: at most two digits, and 50 at most
FirstNumberWithin50(s) ==
    LET start == CHOOSE i \in 1..Len(s) : IsDigit(s[i]) /\ \A j \in 1..(i - 1) : ~IsDigit(s[j])
        length == Cardinality({k \in start..Len(s) : \A j \in start..k : IsDigit(s[j])})
        zeros == Cardinality({k \in start..(start + length - 1) :
                                 \A j \in start..k : s[j] = "0"})
        digits == SubSeq(s, start + zeros, start + length - 1)
    IN  \/ Len(digits) <= 1
        \/ /\ Len(digits) = 2
           /\ \/ DigitVal(digits[1]) < 5
              \/ digits = <<"5", "0">>

\* C19: validate_experience(s) is true exactly when s has a digit and the
\* number written by its first maximal run of digits is between 0 and 50;
\* what comes before the run (a minus sign) and after it (a decimal part,
\* later runs) makes no difference.
C19_FirstNumberDecides ==
    result.function = "validate_experience"
        => result.value = (/\ \E i \in 1..Len(argument) : IsDigit(argument[i])
                           /\ FirstNumberWithin50(argument))

\* "-50" is accepted, the minus sign being skipped, and so is "50.5"
C19_Witness ==
    /\ argument \in {<<"-", "5", "0">>, <<"5", "0", ".", "5">>}
    /\ result = Returned("validate_experience", TRUE)

\* C20: initialize_session_state, called at the start of every page run,
\* sets every key of a new session to its default and sets no key that is
\* present: on an initialised session it leaves stage, record, questions,
\* answers, cursor, ended flag and transcript as they are.
C20_InitializeKeepsSession ==
    [][/\ (page = "run" /\ session_keys = DefaultKeys)
            => UNCHANGED <<session, messages, session_keys>>
       /\ (page = "run" /\ session_keys = {})
            => /\ initialize_session_state'
               /\ session_keys' = DefaultKeys]_vars

\* the page has been run again after two turns, and the name and the
\* transcript of these turns are still there
C20_Witness ==
    /\ page = "shown"
    /\ session_keys = DefaultKeys
    /\ Len(messages) = 5
    /\ conversation_stage = "info_gathering"
    /\ IsSet("name")

\* The turn that types the next input of the script, ended or not
AnyScriptedTurn == pos <= Len(script) /\ pos' = pos + 1

\* C21: a turn whose input matches an ending pattern leaves stage, record,
\* questions, answers and cursor as they are and ends with the ended flag
\* set; in particular "I am done with it" and "the end of the loop", typed
\* where an answer is expected, are not recorded and do not move the cursor.
C21_EndingChangesOnlyEnded ==
    [][/\ (AnyScriptedTurn /\ IsEnding[script[pos]])
            => /\ conversation_ended'
               /\ UNCHANGED <<conversation_stage, candidate_info, technical_questions,
                              technical_answers, current_question_index>>
       /\ (AnyScriptedTurn /\ script[pos] \in {<<"I"," ","a","m"," ","d","o","n","e"," ","w","i","t","h"," ","i","t">>, <<"t","h","e"," ","e","n","d"," ","o","f"," ","t","h","e"," ","l","o","o","p">>})
            => /\ conversation_ended'
               /\ technical_answers' = technical_answers
               /\ current_question_index' = current_question_index]_vars

\* "I am done with it" was typed as the answer to the first question
C21_Witness ==
    /\ script = DoneScript
    /\ pos = 10
    /\ conversation_stage = "technical_questions"
    /\ technical_questions # <<>>
    /\ technical_answers = <<>>
    /\ current_question_index = 0
    /\ conversation_ended
    /\ response = Msg("goodbye", <<>>)

StageOrder == <<"greeting", "info_gathering", "generating_questions",
                "technical_questions", "conclusion">>
StageRank(stage) == CHOOSE k \in 1..Len(StageOrder) : StageOrder[k] = stage

\* C22: the stage is always one of the five stages, and a turn either
\* leaves it where it is or moves it to the next stage of greeting,
\* info_gathering, generating_questions, technical_questions, conclusion:
\* never back, never two stages at once.
C22_StageMovesForwardByOne ==
    /\ [](\E k \in 1..Len(StageOrder) : StageOrder[k] = conversation_stage)
    /\ [][\/ StageRank(conversation_stage') = StageRank(conversation_stage)
          \/ StageRank(conversation_stage') = StageRank(conversation_stage) + 1]_vars

\* the session went through all five stages, with two questions
C22_Witness ==
    /\ conversation_stage = "conclusion"
    /\ Len(technical_questions) = 2
    /\ Len(technical_answers) = 2
    /\ response = Msg("questions_complete", <<>>)

\* C23: once the first page run has initialised the session, the transcript
\* is the assistant greeting followed by pairs of a user message and an
\* assistant message; a step either leaves it as it is or appends the typed
\* input as a user message and what handle_conversation returned as an
\* assistant message, which happens only on a shown page of a conversation
\* that has not ended; once ended is true the transcript does not change.
C23_TranscriptAlternates ==
    /\ [](session_keys = DefaultKeys
            => /\ Len(messages) % 2 = 1
               /\ messages[1] = Message("assistant", Msg("greeting", <<>>))
               /\ \A i \in 2..Len(messages) :
                     messages[i].role = IF i % 2 = 0 THEN "user" ELSE "assistant")
    /\ [][session_keys = DefaultKeys
            => /\ \/ messages' = messages
                  \/ /\ page = "shown"
                     /\ ~conversation_ended
                     /\ pos' = pos + 1
                     /\ messages' = messages \o <<Message("user", script[pos]),
                                                   Message("assistant", response')>>
               /\ conversation_ended => messages' = messages]_vars

\* the first input ended the conversation and the page has been run again:
\* three messages, and an input left that cannot be typed any more
C23_Witness ==
    /\ session_keys = DefaultKeys
    /\ page = "shown"
    /\ conversation_ended
    /\ pos <= Len(script)
    /\ Len(messages) = 3
    /\ messages[2] = Message("user", script[1])
    /\ messages[3] = Message("assistant", Msg("goodbye", <<>>))

====
